---- MODULE Spec2Model ----
(***************************************************************************)
(* Task API with dependencies and status transitions                       *)
(* (session2_model3/app): the tasks table, the task_dependencies           *)
(* association table and the request handlers of routers/tasks.py.         *)
(* Requests run one at a time, each in its own session; a handler is one   *)
(* atomic step from the committed store to the committed store.  The       *)
(* database clock is read by the column defaults of created_at and         *)
(* updated_at.                                                             *)
(***************************************************************************)
EXTENDS Integers, Sequences, FiniteSets, TLC

VARIABLES tasks, task_dependencies, resp, now, sessions, page

vars == <<tasks, task_dependencies, resp, now, sessions, page>>

----------------------------------------------------------------------------
(* Bounds *)

\* largest primary key the store hands out under Spec
MaxTasks == 2
\* largest primary key the store hands out under SpecDeps
MaxId == 3
\* largest primary key the store hands out under SpecBulkDeps
MaxBulkId == 3
\* largest primary key the store hands out under SpecFields
MaxFieldTasks == 2
\* largest primary key the store hands out under SpecClock
MaxClockTasks == 2
\* last reading of the database clock under SpecClock
MaxClock == 1
\* largest primary key the store hands out under SpecEdit
MaxEditTasks == 2
\* last reading of the database clock under SpecEdit
MaxEditClock == 1
\* largest primary key the store hands out under SpecTags
MaxTagTasks == 2
\* largest primary key the store hands out under SpecRoutes
MaxRouteTasks == 2
\* largest primary key the store hands out under SpecRace
MaxRaceTasks == 1
\* largest primary key the store hands out under SpecRaceBulk
MaxRaceBulkTasks == 1
\* largest primary key the store hands out under SpecRaceDeps
MaxRaceDepId == 3
\* largest primary key the store hands out under SpecGraph
MaxGraphId == 3
\* largest skip, limit and total of a call under SpecPage
MaxSkip == 4
MaxLimit == 3
MaxTotal == 5

----------------------------------------------------------------------------
(* Enumerations and values *)

PENDING == "pending"
IN_PROGRESS == "in-progress"
COMPLETED == "completed"
CANCELLED == "cancelled"
ON_HOLD == "on-hold"

TaskStatus == {PENDING, IN_PROGRESS, COMPLETED, CANCELLED, ON_HOLD}

LOW == "low"
MEDIUM == "medium"
HIGH == "high"
CRITICAL == "critical"

TaskPriority == {LOW, MEDIUM, HIGH, CRITICAL}

\* a nullable column holding no value
NULL == "NULL"
\* the tags column (a string: a sequence of characters) holding no value
NullStr == <<NULL>>
\* the value datetime.utcnow() yields
utcnow == "utcnow"

\* func.now(): the reading of the database clock when a statement runs
func_now == now

\* strings that are taken apart are sequences of characters
SP == " "
COMMA == ","

----------------------------------------------------------------------------
(* Sequences helpers *)

Range(s) == {s[i] : i \in DOMAIN s}

Perms(S) == {s \in [1..Cardinality(S) -> S] : Range(s) = S}

----------------------------------------------------------------------------
(* models/task.py: Task *)

\* str.strip() on a sequence of characters
RECURSIVE lstrip(_)
lstrip(s) == IF s # <<>> /\ Head(s) = SP THEN lstrip(Tail(s)) ELSE s

RECURSIVE rstrip(_)
rstrip(s) ==
    IF s # <<>> /\ s[Len(s)] = SP THEN rstrip(SubSeq(s, 1, Len(s) - 1)) ELSE s

strip(s) == rstrip(lstrip(s))

\* ', '.join(tags)
RECURSIVE join(_)
join(tags) ==
    IF tags = <<>> THEN <<>>
    ELSE IF Len(tags) = 1 THEN tags[1]
    ELSE tags[1] \o <<COMMA, SP>> \o join(Tail(tags))

\* str.split(',')
RECURSIVE split(_, _)
split(s, cur) ==
    IF s = <<>> THEN <<cur>>
    ELSE IF Head(s) = COMMA THEN <<cur>> \o split(Tail(s), <<>>)
    ELSE split(Tail(s), Append(cur, Head(s)))

\* Task.tags_list setter: the value stored in the tags column
tags_list_set(tags) == IF tags # <<>> THEN join(tags) ELSE NullStr

\* Task.tags_list getter
tags_list_get(column) ==
    IF column # NullStr /\ column # <<>>
    THEN LET parts == split(column, <<>>)
         IN  SelectSeq([i \in DOMAIN parts |-> strip(parts[i])],
                       LAMBDA t : t # <<>>)
    ELSE <<>>

\* mutant: the table also lets a status move to itself
get_allowed_transitions_self(status) ==
    {status} \cup
    (CASE status = PENDING -> {IN_PROGRESS, CANCELLED, ON_HOLD}
       [] status = IN_PROGRESS -> {COMPLETED, ON_HOLD, CANCELLED}
       [] status = ON_HOLD -> {PENDING, IN_PROGRESS, CANCELLED}
       [] status = COMPLETED -> {IN_PROGRESS}
       [] status = CANCELLED -> {PENDING}
       [] OTHER -> {})

\* mutant: a pending task may be completed directly
get_allowed_transitions_direct(status) ==
    CASE status = PENDING -> {IN_PROGRESS, COMPLETED, CANCELLED, ON_HOLD}
      [] status = IN_PROGRESS -> {COMPLETED, ON_HOLD, CANCELLED}
      [] status = ON_HOLD -> {PENDING, IN_PROGRESS, CANCELLED}
      [] status = COMPLETED -> {IN_PROGRESS}
      [] status = CANCELLED -> {PENDING}
      [] OTHER -> {}

get_allowed_transitions(status) ==
    CASE status = PENDING -> {IN_PROGRESS, CANCELLED, ON_HOLD}
      [] status = IN_PROGRESS -> {COMPLETED, ON_HOLD, CANCELLED}
      [] status = ON_HOLD -> {PENDING, IN_PROGRESS, CANCELLED}
      [] status = COMPLETED -> {IN_PROGRESS}
      [] status = CANCELLED -> {PENDING}
      [] OTHER -> {}

can_transition_to(task, new_status) ==
    new_status \in get_allowed_transitions(task.status)

\* mutant: on-hold is missing from the table and falls to the default
get_progress_percentage_nohold(task) ==
    CASE task.status = PENDING -> 0
      [] task.status = IN_PROGRESS -> 50
      [] task.status = COMPLETED -> 100
      [] task.status = CANCELLED -> 0
      [] OTHER -> 0

get_progress_percentage(task) ==
    CASE task.status = PENDING -> 0
      [] task.status = IN_PROGRESS -> 50
      [] task.status = COMPLETED -> 100
      [] task.status = ON_HOLD -> 25
      [] task.status = CANCELLED -> 0
      [] OTHER -> 0

\* Task.dependencies: the tasks reached over task_dependencies rows whose
\* parent_id is this task (the secondary join drops rows without a task)
dependencies(store, edges, task_id) ==
    {c \in DOMAIN store : <<task_id, c>> \in edges}

\* mutant: the dependencies of dependencies block as well
RECURSIVE get_blocking_dependencies_deep(_, _, _)
get_blocking_dependencies_deep(store, edges, task_id) ==
    LET deps == dependencies(store, edges, task_id)
    IN  {dep \in deps : store[dep].status # COMPLETED}
        \cup UNION {get_blocking_dependencies_deep(store, edges, dep) :
                       dep \in deps \ {task_id}}

get_blocking_dependencies(store, edges, task_id) ==
    {dep \in dependencies(store, edges, task_id) : store[dep].status # COMPLETED}

\* mutant: ready only without dependencies
is_ready_to_start_nodeps(store, edges, task_id) ==
    Cardinality(dependencies(store, edges, task_id)) = 0

is_ready_to_start(store, edges, task_id) ==
    Cardinality(get_blocking_dependencies(store, edges, task_id)) = 0

----------------------------------------------------------------------------
(* schemas/task.py: TaskCreate, TaskUpdate *)

\* ceiling of validate_tags
MaxTags == 20

\* validate_tags: list(set(tag.strip() for tag in v if tag.strip())); the
\* order of a list built from a set is not fixed, so every order is possible
\* (above MaxTags unique tags the schema refuses the request with 422 and no
\* handler runs: there is no validated list)
validate_tags(v) ==
    LET unique_tags == {strip(v[i]) : i \in {j \in DOMAIN v : strip(v[j]) # <<>>}}
    IN  IF Cardinality(unique_tags) > MaxTags THEN {} ELSE Perms(unique_tags)

\* A request body is a record; req.fields names the fields it supplies
\* (the keys model_dump(exclude_unset=True) keeps).
\* TaskCreate: the defaults of the fields that were not supplied
\* mutant: a priority that is not supplied defaults to low
TaskCreate_low(req) ==
    [req EXCEPT !.status = IF "status" \in req.fields THEN @ ELSE PENDING,
                !.priority = IF "priority" \in req.fields THEN @ ELSE LOW,
                !.assigned_to = IF "assigned_to" \in req.fields THEN @ ELSE NULL,
                !.tags = IF "tags" \in req.fields THEN @ ELSE <<>>,
                !.dependency_ids =
                    IF "dependency_ids" \in req.fields THEN @ ELSE <<>>]

TaskCreate(req) ==
    [req EXCEPT !.status = IF "status" \in req.fields THEN @ ELSE PENDING,
                !.priority = IF "priority" \in req.fields THEN @ ELSE MEDIUM,
                !.assigned_to = IF "assigned_to" \in req.fields THEN @ ELSE NULL,
                !.tags = IF "tags" \in req.fields THEN @ ELSE <<>>,
                !.dependency_ids =
                    IF "dependency_ids" \in req.fields THEN @ ELSE <<>>]

\* a body that supplies no field
NoFields == [fields |-> {}, status |-> PENDING, priority |-> MEDIUM,
             assigned_to |-> NULL, tags |-> <<>>, dependency_ids |-> <<>>]

----------------------------------------------------------------------------
(* routers/tasks.py *)

NoBody == <<>>

Response(op, id, code, kind, n, body) ==
    [op |-> op, id |-> id, code |-> code, kind |-> kind, n |-> n, body |-> body]

\* What a handler leaves behind: the committed store and the response.  A
\* handler is an operator from the store and the request to the set of its
\* possible outcomes (more than one where the code leaves an order open).
Outcome(store, edges, response) ==
    [tasks |-> store, task_dependencies |-> edges, resp |-> response]

\* _convert_task_to_response
TaskResponse(store, edges, task_id) ==
    [id |-> task_id,
     status |-> store[task_id].status,
     priority |-> store[task_id].priority,
     created_at |-> store[task_id].created_at,
     updated_at |-> store[task_id].updated_at,
     completed_at |-> store[task_id].completed_at,
     assigned_to |-> store[task_id].assigned_to,
     tags |-> tags_list_get(store[task_id].tags),
     progress_percentage |-> get_progress_percentage(store[task_id]),
     is_ready_to_start |-> is_ready_to_start(store, edges, task_id),
     dependencies |-> dependencies(store, edges, task_id)]

\* the id the store gives the next inserted row (Integer primary key of the
\* SQLite tasks table: one more than the largest id in use)
NextId(store) ==
    IF DOMAIN store = {} THEN 1
    ELSE (CHOOSE m \in DOMAIN store : \A i \in DOMAIN store : i <= m) + 1

\* ascending ids of a set of tasks, the order rows are read in
RECURSIVE SortedIds(_)
SortedIds(S) ==
    IF S = {} THEN <<>>
    ELSE LET m == CHOOSE x \in S : \A y \in S : x <= y
         IN  <<m>> \o SortedIds(S \ {m})

\* create_task, lines 59-60: the dependency tasks found and the test on them
existing_deps(store, dependency_ids) ==
    {i \in DOMAIN store : i \in Range(dependency_ids)}

\* mutant: the request fails only when none of the dependencies is found
DependenciesMissing_none(store, dependency_ids) ==
    /\ dependency_ids # <<>>
    /\ Cardinality(existing_deps(store, dependency_ids)) = 0

\* mutant: the dependencies are looked up after the flush, when the new
\* task has its row
DependenciesMissing_afterflush(store, dependency_ids) ==
    /\ dependency_ids # <<>>
    /\ Cardinality({i \in DOMAIN store \cup {NextId(store)} :
                      i \in Range(dependency_ids)}) # Len(dependency_ids)

DependenciesMissing(store, dependency_ids) ==
    /\ dependency_ids # <<>>
    /\ Cardinality(existing_deps(store, dependency_ids)) # Len(dependency_ids)

\* create_task, lines 66-75: the row of the new task; the INSERT leaves
\* created_at and updated_at to their server default
NewTask(task, tags) ==
    [status |-> task.status,
     priority |-> task.priority,
     created_at |-> func_now,
     updated_at |-> func_now,
     completed_at |-> NULL,
     assigned_to |-> task.assigned_to,
     tags |-> tags_list_set(tags)]

\* create_task, lines 81-88: the rows added to task_dependencies
NewDependencies(new_id, dependency_ids) ==
    {<<new_id, dependency_ids[i]>> : i \in DOMAIN dependency_ids}

create_task(store, edges, req) ==
    LET task == TaskCreate(req)
        new_id == NextId(store)
    IN  IF DependenciesMissing(store, task.dependency_ids)
        THEN {Outcome(store, edges,
                 Response("create", 0, 400, "DependencyNotFound", 0, NoBody))}
        ELSE {LET added == [i \in DOMAIN store \cup {new_id} |->
                              IF i = new_id THEN NewTask(task, tags)
                              ELSE store[i]]
                  rows == NewDependencies(new_id, task.dependency_ids)
              IN  IF rows \cap edges # {}
                  THEN \* a row with this primary key exists: rollback
                       Outcome(store, edges,
                          Response("create", 0, 500, "Internal", 0, NoBody))
                  ELSE Outcome(added, edges \cup rows,
                          Response("create", new_id, 201, "", 0,
                             <<TaskResponse(added, edges \cup rows, new_id)>>))
              : tags \in validate_tags(task.tags)}

\* update_task, lines 376-382: the supplied status is one the task's
\* current status cannot move to
\* mutant: the status is checked only when it is the one field supplied
TransitionRejected_alone(task, update_data) ==
    /\ update_data.fields = {"status"}
    /\ ~can_transition_to(task, update_data.status)

TransitionRejected(task, update_data) ==
    /\ "status" \in update_data.fields
    /\ ~can_transition_to(task, update_data.status)

\* update_task, lines 388-400: the task after the supplied fields are set
\* (update_data.tags is the validated tag list)
\* mutant: completed_at is written only when the status becomes completed
UpdateFields_noclear(task, update_data) ==
    LET t1 == IF "tags" \in update_data.fields
              THEN [task EXCEPT !.tags = tags_list_set(update_data.tags)]
              ELSE task
        t2 == [t1 EXCEPT
                 !.status = IF "status" \in update_data.fields
                            THEN update_data.status ELSE @,
                 !.priority = IF "priority" \in update_data.fields
                              THEN update_data.priority ELSE @,
                 !.assigned_to = IF "assigned_to" \in update_data.fields
                                 THEN update_data.assigned_to ELSE @]
    IN  IF "status" \in update_data.fields /\ update_data.status = COMPLETED
        THEN [t2 EXCEPT !.completed_at = utcnow]
        ELSE t2

\* mutant: the fields the request leaves unset are written as well
UpdateFields_unset(task, update_data) ==
    LET t2 == [task EXCEPT !.tags = tags_list_set(update_data.tags),
                           !.status = update_data.status,
                           !.priority = update_data.priority,
                           !.assigned_to = update_data.assigned_to]
    IN  IF update_data.status = COMPLETED
        THEN [t2 EXCEPT !.completed_at = utcnow]
        ELSE [t2 EXCEPT !.completed_at = NULL]

UpdateFields(task, update_data) ==
    LET t1 == IF "tags" \in update_data.fields
              THEN [task EXCEPT !.tags = tags_list_set(update_data.tags)]
              ELSE task
        t2 == [t1 EXCEPT
                 !.status = IF "status" \in update_data.fields
                            THEN update_data.status ELSE @,
                 !.priority = IF "priority" \in update_data.fields
                              THEN update_data.priority ELSE @,
                 !.assigned_to = IF "assigned_to" \in update_data.fields
                                 THEN update_data.assigned_to ELSE @]
    IN  IF "status" \in update_data.fields /\ update_data.status = COMPLETED
        THEN [t2 EXCEPT !.completed_at = utcnow]
        ELSE IF "status" \in update_data.fields /\ update_data.status # COMPLETED
        THEN [t2 EXCEPT !.completed_at = NULL]
        ELSE t2

\* db.commit(): the flush writes an UPDATE for a task only when one of its
\* column attributes holds a value other than the loaded one, and the
\* UPDATE sets updated_at to its onupdate default
\* mutant: the row is written without the onupdate default
Flush_keep(old, new) == new

Flush(old, new) ==
    IF new # old THEN [new EXCEPT !.updated_at = func_now] ELSE new

update_task(store, edges, task_id, req) ==
    IF task_id \notin DOMAIN store
    THEN {Outcome(store, edges,
             Response("update", task_id, 404, "NotFound", 0, NoBody))}
    ELSE IF TransitionRejected(store[task_id], req)
    THEN {Outcome(store, edges,
             Response("update", task_id, 400, "InvalidTransition", 0, NoBody))}
    ELSE {LET update_data == [req EXCEPT !.tags = tags]
              updated == [store EXCEPT
                            ![task_id] = Flush(@, UpdateFields(@, update_data))]
          IN  Outcome(updated, edges,
                 Response("update", task_id, 200, "", 0,
                    <<TaskResponse(updated, edges, task_id)>>))
          : tags \in validate_tags(req.tags)}

\* bulk_update_tasks, lines 248-250: the tasks found and the test on them
found_tasks(store, task_ids) == {i \in DOMAIN store : i \in Range(task_ids)}

\* mutant: the request fails only when none of the ids is found
TasksMissing_all(store, task_ids) ==
    Cardinality(found_tasks(store, task_ids)) = 0

TasksMissing(store, task_ids) ==
    Cardinality(found_tasks(store, task_ids)) # Len(task_ids)

\* bulk_update_tasks, lines 267-274: the selected tasks the status check stops at
\* mutant: only the first task read is checked
BulkRejected_first(store, found, update_data) ==
    {i \in found : /\ \A j \in found : i <= j
                   /\ TransitionRejected(store[i], update_data)}

BulkRejected(store, found, update_data) ==
    {i \in found : TransitionRejected(store[i], update_data)}

\* bulk_update_tasks, lines 277-283: one task after the supplied fields are
\* set; completed_at is written only when the status becomes completed
\* mutant: the status is set without the completion time
BulkFields_nostamp(task, update_data) ==
    [task EXCEPT
       !.status = IF "status" \in update_data.fields
                  THEN update_data.status ELSE @,
       !.priority = IF "priority" \in update_data.fields
                    THEN update_data.priority ELSE @,
       !.assigned_to = IF "assigned_to" \in update_data.fields
                       THEN update_data.assigned_to ELSE @]

BulkFields(task, update_data) ==
    LET t2 == [task EXCEPT
                 !.status = IF "status" \in update_data.fields
                            THEN update_data.status ELSE @,
                 !.priority = IF "priority" \in update_data.fields
                              THEN update_data.priority ELSE @,
                 !.assigned_to = IF "assigned_to" \in update_data.fields
                                 THEN update_data.assigned_to ELSE @]
    IN  IF "status" \in update_data.fields /\ update_data.status = COMPLETED
        THEN [t2 EXCEPT !.completed_at = utcnow]
        ELSE t2

\* bulk_update_tasks, lines 278-279 and 285: setattr(task, 'tags', <list>)
\* puts a list in the String column; the commit cannot bind it and raises
BulkCommitFails(update_data) == "tags" \in update_data.fields

bulk_update_tasks(store, edges, task_ids, req) ==
    LET found == found_tasks(store, task_ids)
    IN  IF TasksMissing(store, task_ids)
        THEN {Outcome(store, edges,
                 Response("bulk", 0, 404, "NotFound", 0, NoBody))}
        ELSE IF BulkRejected(store, found, req) # {}
        THEN \* the first rejected task in the order the rows were read in,
             \* which the query does not fix
             {Outcome(store, edges,
                 Response("bulk", bad, 400, "InvalidTransition", 0, NoBody))
              : bad \in BulkRejected(store, found, req)}
        ELSE IF BulkCommitFails(req)
        THEN {Outcome(store, edges,
                 Response("bulk", 0, 500, "Internal", 0, NoBody))}
        ELSE LET updated == [i \in DOMAIN store |->
                               IF i \in found
                               THEN Flush(store[i], BulkFields(store[i], req))
                               ELSE store[i]]
                 order == SortedIds(found)
             IN  {Outcome(updated, edges,
                     Response("bulk", 0, 200, "", 0,
                        [k \in DOMAIN order |->
                           TaskResponse(updated, edges, order[k])]))}

\* mutant: a transition that is allowed is carried out as well
check_status_transition_apply(store, edges, task_id, new_status) ==
    IF task_id \notin DOMAIN store
    THEN {Outcome(store, edges,
             Response("check", task_id, 404, "NotFound", 0, NoBody))}
    ELSE LET is_allowed == can_transition_to(store[task_id], new_status)
         IN  {Outcome(IF is_allowed
                      THEN [store EXCEPT ![task_id].status = new_status]
                      ELSE store,
                 edges,
                 Response("check", task_id, 200, "", 0,
                    <<[current_status |-> store[task_id].status,
                       new_status |-> new_status,
                       is_allowed |-> is_allowed,
                       reason_is_null |-> is_allowed]>>))}

check_status_transition(store, edges, task_id, new_status) ==
    IF task_id \notin DOMAIN store
    THEN {Outcome(store, edges,
             Response("check", task_id, 404, "NotFound", 0, NoBody))}
    ELSE LET is_allowed == can_transition_to(store[task_id], new_status)
         IN  {Outcome(store, edges,
                 Response("check", task_id, 200, "", 0,
                    <<[current_status |-> store[task_id].status,
                       new_status |-> new_status,
                       is_allowed |-> is_allowed,
                       reason_is_null |-> is_allowed]>>))}

get_task(store, edges, task_id) ==
    IF task_id \notin DOMAIN store
    THEN {Outcome(store, edges,
             Response("get", task_id, 404, "NotFound", 0, NoBody))}
    ELSE {Outcome(store, edges,
             Response("get", task_id, 200, "", 0,
                <<TaskResponse(store, edges, task_id)>>))}

\* limit of get_tasks when the request names none
DefaultLimit == 100

\* get_tasks without filters: the tasks ordered by created_at, latest first
\* (rows with equal created_at in any order), cut at the limit
get_tasks(store, edges) ==
    {Outcome(store, edges,
        Response("list", 0, 200, "", 0,
           [k \in 1..(IF Len(order) < DefaultLimit THEN Len(order)
                      ELSE DefaultLimit) |->
              TaskResponse(store, edges, order[k])]))
     : order \in {p \in Perms(DOMAIN store) :
                    \A i \in DOMAIN p, j \in DOMAIN p :
                       i < j => store[p[i]].created_at >= store[p[j]].created_at}}

\* get_task_statistics: the counts by status and their sum
get_task_statistics(store, edges) ==
    LET counts == [s \in TaskStatus |->
                     Cardinality({t \in DOMAIN store : store[t].status = s})]
    IN  {Outcome(store, edges,
            Response("statistics", 0, 200, "", Cardinality(DOMAIN store),
               <<counts>>))}

\* get_task_count: {"total": total}
get_task_count(store, edges) ==
    {Outcome(store, edges,
        Response("count", 0, 200, "", Cardinality(DOMAIN store), NoBody))}

\* delete_task, lines 426-428: the rows of tasks joined to task_dependencies
\* on parent_id whose child_id is the task
\* mutant: the filter is on parent_id, counting the task's own dependencies
dependent_tasks_parent(store, edges, task_id) ==
    Cardinality({e \in edges : e[2] \in DOMAIN store /\ e[1] = task_id})

dependent_tasks(store, edges, task_id) ==
    Cardinality({e \in edges : e[1] \in DOMAIN store /\ e[2] = task_id})

\* delete_task, line 436: db.delete(db_task) removes the task's row and, through
\* the two relationships over the secondary table, the rows that name it
\* mutant: the rows the task is the parent of stay behind
DeleteRows_child(edges, task_id) ==
    {e \in edges : e[2] # task_id}

\* mutant: the delete leaves every row of task_dependencies behind
DeleteRows_none(edges, task_id) == edges

DeleteRows(edges, task_id) ==
    {e \in edges : e[1] # task_id /\ e[2] # task_id}

\* mutant: a delete of an id without a row answers 204 like a repeated delete
delete_task_idempotent(store, edges, task_id) ==
    IF task_id \notin DOMAIN store
    THEN {Outcome(store, edges,
             Response("delete", task_id, 204, "", 0, NoBody))}
    ELSE IF dependent_tasks(store, edges, task_id) > 0
    THEN {Outcome(store, edges,
             Response("delete", task_id, 400, "HasDependents",
                dependent_tasks(store, edges, task_id), NoBody))}
    ELSE {Outcome([i \in DOMAIN store \ {task_id} |-> store[i]],
             DeleteRows(edges, task_id),
             Response("delete", task_id, 204, "", 0, NoBody))}

delete_task(store, edges, task_id) ==
    IF task_id \notin DOMAIN store
    THEN {Outcome(store, edges,
             Response("delete", task_id, 404, "NotFound", 0, NoBody))}
    ELSE IF dependent_tasks(store, edges, task_id) > 0
    THEN {Outcome(store, edges,
             Response("delete", task_id, 400, "HasDependents",
                dependent_tasks(store, edges, task_id), NoBody))}
    ELSE {Outcome([i \in DOMAIN store \ {task_id} |-> store[i]],
             DeleteRows(edges, task_id),
             Response("delete", task_id, 204, "", 0, NoBody))}

----------------------------------------------------------------------------
(* routers/tasks.py: requests that run at the same time.  Each request has *)
(* its own session; between the statement that reads and db.commit() the  *)
(* session holds the rows it loaded and the values it assigned, and the    *)
(* store can change under it.                                              *)

\* the sessions of the requests in flight
Sessions == {"s1", "s2"}

\* what a session holds: the endpoint, the statement it is at ("done" when
\* the request was answered), the task ids of the request, the body, the rows
\* it loaded, the id the flush gave a new row, and the answer of the request
Session(op, pc, ids, req, loaded, new_id, answer) ==
    [op |-> op, pc |-> pc, ids |-> ids, req |-> req, loaded |-> loaded,
     new_id |-> new_id, resp |-> answer]

\* a session that loaded no row
NoRows == <<>>

\* a request that is not answered yet
NoAnswer == Response("none", 0, 0, "", 0, NoBody)

\* a request that was answered before its session held anything
Answered(answer) ==
    Session(answer.op, "done", <<>>, NoFields, NoRows, 0, answer)

\* the flush of one task: the UPDATE sets the columns whose attribute holds
\* another value than the loaded one (and updated_at, by its onupdate
\* default) and leaves every other column of the row as it is in the store
Write(current, loaded, new) ==
    [status |-> IF new.status # loaded.status THEN new.status
                ELSE current.status,
     priority |-> IF new.priority # loaded.priority THEN new.priority
                  ELSE current.priority,
     created_at |-> current.created_at,
     updated_at |-> IF new # loaded THEN func_now ELSE current.updated_at,
     completed_at |-> IF new.completed_at # loaded.completed_at
                      THEN new.completed_at ELSE current.completed_at,
     assigned_to |-> IF new.assigned_to # loaded.assigned_to
                     THEN new.assigned_to ELSE current.assigned_to,
     tags |-> IF new.tags # loaded.tags THEN new.tags ELSE current.tags]

\* update_task, lines 366-400: the query, the status check against the
\* loaded row and the assignments; a request that is refused is answered here
update_task_read(store, task_id, req) ==
    IF task_id \notin DOMAIN store
    THEN {Answered(Response("update", task_id, 404, "NotFound", 0, NoBody))}
    ELSE IF TransitionRejected(store[task_id], req)
    THEN {Answered(Response("update", task_id, 400, "InvalidTransition", 0,
                      NoBody))}
    ELSE {Session("update", "commit", <<task_id>>, [req EXCEPT !.tags = tags],
                  [i \in {task_id} |-> store[i]], 0, NoAnswer)
          : tags \in validate_tags(req.tags)}

\* update_task, lines 402-404: db.commit() and db.refresh(); without a row
\* for the task the flush (or the refresh) raises and the handler answers 500
\* mutant: the commit is refused when the row is not the one that was loaded
update_task_commit_version(store, edges, s) ==
    LET task_id == s.ids[1]
    IN  IF task_id \notin DOMAIN store \/ store[task_id] # s.loaded[task_id]
        THEN {Outcome(store, edges,
                 Response("update", task_id, 500, "Internal", 0, NoBody))}
        ELSE LET updated ==
                   [store EXCEPT
                      ![task_id] = Write(@, s.loaded[task_id],
                                      UpdateFields(s.loaded[task_id], s.req))]
             IN  {Outcome(updated, edges,
                     Response("update", task_id, 200, "", 0,
                        <<TaskResponse(updated, edges, task_id)>>))}

update_task_commit(store, edges, s) ==
    LET task_id == s.ids[1]
    IN  IF task_id \notin DOMAIN store
        THEN {Outcome(store, edges,
                 Response("update", task_id, 500, "Internal", 0, NoBody))}
        ELSE LET updated ==
                   [store EXCEPT
                      ![task_id] = Write(@, s.loaded[task_id],
                                      UpdateFields(s.loaded[task_id], s.req))]
             IN  {Outcome(updated, edges,
                     Response("update", task_id, 200, "", 0,
                        <<TaskResponse(updated, edges, task_id)>>))}

\* bulk_update_tasks, lines 248-283: the query, the status check of every
\* loaded row and the assignments
bulk_update_tasks_read(store, task_ids, req) ==
    LET found == found_tasks(store, task_ids)
    IN  IF TasksMissing(store, task_ids)
        THEN {Answered(Response("bulk", 0, 404, "NotFound", 0, NoBody))}
        ELSE IF BulkRejected(store, found, req) # {}
        THEN {Answered(Response("bulk", bad, 400, "InvalidTransition", 0,
                          NoBody))
              : bad \in BulkRejected(store, found, req)}
        ELSE {Session("bulk", "commit", task_ids, req,
                      [i \in found |-> store[i]], 0, NoAnswer)}

\* bulk_update_tasks, lines 285-288: db.commit() and the answer read back
\* from the store; a list in the tags column or a task without a row makes
\* the commit (or the read) raise, and the handler rolls back and answers 500
bulk_update_tasks_commit(store, edges, s) ==
    LET found == DOMAIN s.loaded
    IN  IF BulkCommitFails(s.req) \/ ~(found \subseteq DOMAIN store)
        THEN {Outcome(store, edges,
                 Response("bulk", 0, 500, "Internal", 0, NoBody))}
        ELSE LET updated == [i \in DOMAIN store |->
                               IF i \in found
                               THEN Write(store[i], s.loaded[i],
                                       BulkFields(s.loaded[i], s.req))
                               ELSE store[i]]
                 order == SortedIds(found)
             IN  {Outcome(updated, edges,
                     Response("bulk", 0, 200, "", 0,
                        [k \in DOMAIN order |->
                           TaskResponse(updated, edges, order[k])]))}

\* create_task, lines 57-64: the query for the dependencies and the test on
\* its result
create_task_check(store, req) ==
    LET task == TaskCreate(req)
    IN  IF DependenciesMissing(store, task.dependency_ids)
        THEN {Answered(Response("create", 0, 400, "DependencyNotFound", 0,
                          NoBody))}
        ELSE {Session("create", "flush", task.dependency_ids,
                      [task EXCEPT !.tags = tags], NoRows, 0, NoAnswer)
              : tags \in validate_tags(task.tags)}

\* create_task, lines 66-88: db.flush() inserts the task, which gets its
\* id, and the rows of task_dependencies are inserted; nothing checks that
\* the tasks they name still exist (SQLite does not enforce the foreign keys
\* unless asked to); the session holds the inserted rows until it commits
create_task_flush(store, edges, s) ==
    LET new_id == NextId(store)
        rows == NewDependencies(new_id, s.req.dependency_ids)
    IN  IF rows \cap edges # {}
        THEN Answered(Response("create", 0, 500, "Internal", 0, NoBody))
        ELSE Session("create", "commit", s.ids, s.req,
                     [i \in {new_id} |-> NewTask(s.req, s.req.tags)],
                     new_id, NoAnswer)

\* create_task, lines 90-92: db.commit() and the answer
create_task_commit(store, edges, s) ==
    LET added == [i \in DOMAIN store \cup {s.new_id} |->
                    IF i = s.new_id THEN s.loaded[i] ELSE store[i]]
        rows == NewDependencies(s.new_id, s.req.dependency_ids)
    IN  {Outcome(added, edges \cup rows,
            Response("create", s.new_id, 201, "", 0,
               <<TaskResponse(added, edges \cup rows, s.new_id)>>))}

\* delete_task, lines 418-434: the query for the task and the count of the
\* tasks that depend on it
delete_task_check(store, edges, task_id) ==
    IF task_id \notin DOMAIN store
    THEN Answered(Response("delete", task_id, 404, "NotFound", 0, NoBody))
    ELSE IF dependent_tasks(store, edges, task_id) > 0
    THEN Answered(Response("delete", task_id, 400, "HasDependents",
                     dependent_tasks(store, edges, task_id), NoBody))
    ELSE Session("delete", "commit", <<task_id>>, NoFields,
                 [i \in {task_id} |-> store[i]], 0, NoAnswer)

\* delete_task, lines 436-437: db.delete() and db.commit(); the flush reads
\* the rows of task_dependencies that name the task, deletes them and
\* deletes the row with the task's id
delete_task_commit(store, edges, s) ==
    LET task_id == s.ids[1]
    IN  {Outcome([i \in DOMAIN store \ {task_id} |-> store[i]],
            DeleteRows(edges, task_id),
            Response("delete", task_id, 204, "", 0, NoBody))}

----------------------------------------------------------------------------
(* routers/tasks.py: the routes of the router, in the order they are declared *)

\* a path below the prefix /api/v1/tasks/ is a sequence of segments, a
\* segment a sequence of characters
SegStatistics == <<"s", "t", "a", "t", "i", "s", "t", "i", "c", "s">>
SegBulkUpdate == <<"b", "u", "l", "k", "-", "u", "p", "d", "a", "t", "e">>
SegStatusTransition ==
    <<"s", "t", "a", "t", "u", "s", "-", "t", "r", "a", "n", "s", "i", "t", "i", "o", "n">>
SegCount == <<"c", "o", "u", "n", "t">>

\* the path parameter {task_id} in the path of a route
PARAM == <<"{task_id}">>

routes ==
    <<[method |-> "POST", path |-> <<>>, endpoint |-> "create_task"],
      [method |-> "GET", path |-> <<>>, endpoint |-> "get_tasks"],
      [method |-> "GET", path |-> <<SegStatistics>>,
       endpoint |-> "get_task_statistics"],
      [method |-> "POST", path |-> <<SegBulkUpdate>>,
       endpoint |-> "bulk_update_tasks"],
      [method |-> "POST", path |-> <<PARAM, SegStatusTransition>>,
       endpoint |-> "check_status_transition"],
      [method |-> "GET", path |-> <<PARAM>>, endpoint |-> "get_task"],
      [method |-> "PUT", path |-> <<PARAM>>, endpoint |-> "update_task"],
      [method |-> "DELETE", path |-> <<PARAM>>, endpoint |-> "delete_task"],
      [method |-> "GET", path |-> <<SegCount>>, endpoint |-> "get_task_count"]>>

\* a route's path matches when every segment equals the route's, a path
\* parameter standing for any non-empty segment
path_matches(pattern, path) ==
    /\ Len(pattern) = Len(path)
    /\ \A i \in DOMAIN pattern :
          IF pattern[i] = PARAM THEN path[i] # <<>> ELSE pattern[i] = path[i]

\* the endpoint that answers a request: the first declared route whose path
\* and method match
Route(method, path) ==
    LET full == {i \in DOMAIN routes :
                   /\ path_matches(routes[i].path, path)
                   /\ routes[i].method = method}
    IN  IF full # {}
        THEN routes[CHOOSE i \in full : \A j \in full : i <= j].endpoint
        ELSE "none"

\* task_id: int, the conversion of the path parameter
Digits == <<"0", "1", "2", "3", "4", "5", "6", "7", "8", "9">>

IsInt(seg) == seg # <<>> /\ \A i \in DOMAIN seg : seg[i] \in Range(Digits)

DigitOf(c) == CHOOSE d \in 0..9 : Digits[d + 1] = c

RECURSIVE int(_)
int(seg) ==
    IF Len(seg) = 1 THEN DigitOf(seg[1])
    ELSE 10 * int(SubSeq(seg, 1, Len(seg) - 1)) + DigitOf(seg[Len(seg)])

\* the decimal form of an id, as a client writes it in a path
RECURSIVE str(_)
str(i) ==
    IF i < 10 THEN <<Digits[i + 1]>>
    ELSE str(i \div 10) \o <<Digits[(i % 10) + 1]>>

\* One request to the router: the endpoint of the route answers it, after
\* the path parameter is converted (422 when it is no integer); req,
\* task_ids and new_status are the body and query the endpoint reads
HttpRequest(store, edges, method, path, req, task_ids, new_status) ==
    LET endpoint == Route(method, path)
        invalid == {Outcome(store, edges,
                       Response(endpoint, 0, 422, "ValidationError", 0, NoBody))}
    IN  CASE endpoint = "create_task" -> create_task(store, edges, req)
          [] endpoint = "get_tasks" -> get_tasks(store, edges)
          [] endpoint = "get_task_statistics" -> get_task_statistics(store, edges)
          [] endpoint = "bulk_update_tasks" ->
                bulk_update_tasks(store, edges, task_ids, req)
          [] endpoint = "check_status_transition" ->
                IF IsInt(path[1])
                THEN check_status_transition(store, edges, int(path[1]),
                                             new_status)
                ELSE invalid
          [] endpoint = "get_task" ->
                IF IsInt(path[1]) THEN get_task(store, edges, int(path[1]))
                ELSE invalid
          [] endpoint = "update_task" ->
                IF IsInt(path[1])
                THEN update_task(store, edges, int(path[1]), req)
                ELSE invalid
          [] endpoint = "delete_task" ->
                IF IsInt(path[1]) THEN delete_task(store, edges, int(path[1]))
                ELSE invalid
          [] endpoint = "get_task_count" -> get_task_count(store, edges)
          [] OTHER -> {Outcome(store, edges,
                          Response("none", 0, 404, "NotFound", 0, NoBody))}

----------------------------------------------------------------------------
(* session1_model2/app/utils/pagination.py *)

max(a, b) == IF a >= b THEN a ELSE b

min(a, b) == IF a <= b THEN a ELSE b

\* math.ceil(a / b) of integers a >= 0 and b > 0
ceil(a, b) == IF a % b = 0 THEN a \div b ELSE (a \div b) + 1

\* PaginationParams.__init__
PaginationParams(skip, limit, max_limit) ==
    [skip |-> max(0, skip), limit |-> min(max(1, limit), max_limit)]

\* PaginationParams.get_pagination_info
get_pagination_info(self, total) ==
    LET current_page == IF self.limit > 0 THEN (self.skip \div self.limit) + 1
                        ELSE 1
        total_pages == IF self.limit > 0 THEN ceil(total, self.limit) ELSE 1
    IN  [total_items |-> total,
         total_pages |-> total_pages,
         current_page |-> current_page,
         page_size |-> self.limit,
         has_next |-> current_page < total_pages,
         has_previous |-> current_page > 1,
         items_on_page |-> min(self.limit, max(0, total - self.skip))]

----------------------------------------------------------------------------------------------------------------------------------------
(* Requests and the specifications *)

IdsUpTo(n) == 1..n

\* the id lists of a request: empty, one id, two ids (equal or different)
IdLists(S) == {<<>>} \cup {<<a>> : a \in S} \cup {<<a, b>> : a \in S, b \in S}

WithStatus(S) ==
    {[NoFields EXCEPT !.fields = {"status"}, !.status = s] : s \in S}

WithDeps(reqs, lists) ==
    {[r EXCEPT !.fields = @ \cup {"dependency_ids"}, !.dependency_ids = d] :
        r \in reqs, d \in lists}

\* a session without a request; seq orders the sessions that committed
\* (0: not committed) and overlap names the sessions that had read the same
\* tasks and not committed when this one read
Track(s, seq, overlap) ==
    [op |-> s.op, pc |-> s.pc, ids |-> s.ids, req |-> s.req,
     loaded |-> s.loaded, new_id |-> s.new_id, resp |-> s.resp,
     seq |-> seq, overlap |-> overlap]

Idle == Track(Session("none", "done", <<>>, NoFields, NoRows, 0, NoAnswer), 0, {})

\* a call of the pagination helper: the arguments, the PaginationParams
\* built from them and the dictionary get_pagination_info returned (pc says
\* how far the call is)
Page(pc, skip, limit, max_limit, total, params, info) ==
    [pc |-> pc, skip |-> skip, limit |-> limit, max_limit |-> max_limit,
     total |-> total, params |-> params, info |-> info]

NoParams == [skip |-> 0, limit |-> 0]

NoInfo == [total_items |-> 0, total_pages |-> 0, current_page |-> 0,
           page_size |-> 0, has_next |-> FALSE, has_previous |-> FALSE,
           items_on_page |-> 0]

NoPage == Page("none", 0, 0, 0, 0, NoParams, NoInfo)

Init ==
    /\ tasks = [i \in {} |-> NoFields]
    /\ task_dependencies = {}
    /\ resp = Response("none", 0, 0, "", 0, NoBody)
    /\ now = 0
    /\ sessions = [p \in Sessions |-> Idle]
    /\ page = NoPage

\* One request: the store and the response become one of the handler's
\* outcomes; the store hands out no id above maxid
Step(outcomes, maxid) ==
    \E o \in outcomes :
       /\ \A i \in DOMAIN o.tasks : i <= maxid
       /\ tasks' = o.tasks
       /\ task_dependencies' = o.task_dependencies
       /\ resp' = o.resp
       /\ now' = now
       /\ sessions' = sessions
       /\ page' = page

Create(reqs, maxid) ==
    \E req \in reqs : Step(create_task(tasks, task_dependencies, req), maxid)

Update(reqs, maxid) ==
    \E task_id \in IdsUpTo(maxid), req \in reqs :
       Step(update_task(tasks, task_dependencies, task_id, req), maxid)

BulkUpdate(reqs, maxid) ==
    \E task_ids \in IdLists(IdsUpTo(maxid)) \ {<<>>}, req \in reqs :
       Step(bulk_update_tasks(tasks, task_dependencies, task_ids, req), maxid)

CheckTransition(maxid) ==
    \E task_id \in IdsUpTo(maxid), s \in TaskStatus :
       Step(check_status_transition(tasks, task_dependencies, task_id, s), maxid)

Get(maxid) ==
    \E task_id \in IdsUpTo(maxid) :
       Step(get_task(tasks, task_dependencies, task_id), maxid)

Delete(maxid) ==
    \E task_id \in IdsUpTo(maxid) :
       Step(delete_task(tasks, task_dependencies, task_id), maxid)

\* Spec: the life cycle of a few tasks without dependencies, under every
\* status a request can name
CreateReqs == {NoFields} \cup WithStatus(TaskStatus)

UpdateReqs == WithStatus(TaskStatus)

Next ==
    \/ Create(CreateReqs, MaxTasks)
    \/ Update(UpdateReqs, MaxTasks)
    \/ BulkUpdate(UpdateReqs, MaxTasks)
    \/ CheckTransition(MaxTasks)
    \/ Get(MaxTasks)
    \/ Delete(MaxTasks)

Spec == Init /\ [][Next]_vars

\* SpecDeps: the dependency graph of more tasks, created pending; updates
\* name only the statuses on the way from pending to completed and back,
\* bulk updates only completed
DepCreateReqs == WithDeps({NoFields}, IdLists(IdsUpTo(MaxId)))

DepUpdateReqs == WithStatus({IN_PROGRESS, COMPLETED})

DepBulkReqs == WithStatus({COMPLETED})

NextDeps ==
    \/ Create(DepCreateReqs, MaxId)
    \/ Update(DepUpdateReqs, MaxId)
    \/ BulkUpdate(DepBulkReqs, MaxId)
    \/ Get(MaxId)
    \/ Delete(MaxId)

SpecDeps == Init /\ [][NextDeps]_vars

\* SpecBulkDeps: tasks created pending, alone or depending on the first
\* tasks, moved by bulk updates from pending to completed and back, and
\* deleted
BulkDepCreateReqs == WithDeps({NoFields}, {<<>>, <<1>>, <<1, 2>>})

NextBulkDeps ==
    \/ Create(BulkDepCreateReqs, MaxBulkId)
    \/ BulkUpdate(DepUpdateReqs, MaxBulkId)
    \/ Delete(MaxBulkId)

SpecBulkDeps == Init /\ [][NextBulkDeps]_vars

\* SpecFields: tasks created pending, and updates that supply a priority
\* and tags beside a status (in-progress or completed) or without one
TagA == <<"a">>

FieldCreateReqs == {NoFields}

FieldUpdateReqs ==
    LET base == {NoFields} \cup WithStatus({IN_PROGRESS, COMPLETED})
    IN  UNION {{r,
                [r EXCEPT !.fields = @ \cup {"priority"}, !.priority = HIGH],
                [r EXCEPT !.fields = @ \cup {"priority", "tags"},
                          !.priority = HIGH, !.tags = <<TagA>>]} : r \in base}

NextFields ==
    \/ Create(FieldCreateReqs, MaxFieldTasks)
    \/ Update(FieldUpdateReqs, MaxFieldTasks)
    \/ BulkUpdate(FieldUpdateReqs, MaxFieldTasks)
    \/ Delete(MaxFieldTasks)

SpecFields == Init /\ [][NextFields]_vars

\* SpecClock: the database clock advances between requests; tasks are
\* created pending; updates supply nothing, a priority or the status
\* in-progress, bulk updates the status in-progress
Tick(maxclock) ==
    /\ now < maxclock
    /\ now' = now + 1
    /\ UNCHANGED <<tasks, task_dependencies, resp, sessions, page>>

ClockCreateReqs == {NoFields}

ClockUpdateReqs ==
    {NoFields, [NoFields EXCEPT !.fields = {"priority"}, !.priority = HIGH]}
    \cup WithStatus({IN_PROGRESS})

ClockBulkReqs == WithStatus({IN_PROGRESS})

NextClock ==
    \/ Tick(MaxClock)
    \/ Create(ClockCreateReqs, MaxClockTasks)
    \/ Update(ClockUpdateReqs, MaxClockTasks)
    \/ BulkUpdate(ClockBulkReqs, MaxClockTasks)
    \/ Delete(MaxClockTasks)

SpecClock == Init /\ [][NextClock]_vars

\* SpecEdit: the clock advances between requests; tasks are created
\* pending, alone or depending on task 1, updated one at a time with
\* nothing, a priority or the status in-progress, and deleted
EditCreateReqs == {NoFields} \cup WithDeps({NoFields}, {<<1>>})

NextEdit ==
    \/ Tick(MaxEditClock)
    \/ Create(EditCreateReqs, MaxEditTasks)
    \/ Update(ClockUpdateReqs, MaxEditTasks)
    \/ Delete(MaxEditTasks)

SpecEdit == Init /\ [][NextEdit]_vars

\* SpecTags: tasks created and updated with lists of up to two tags, among
\* them a padded tag, a blank one and one that holds a comma
TagAB == <<"a", COMMA, "b">>
TagPadA == <<SP, "a">>
TagBlank == <<SP>>

TagValues == {TagA, TagAB, TagPadA, TagBlank}

TagLists ==
    {<<>>} \cup {<<x>> : x \in TagValues}
           \cup {<<x, y>> : x \in TagValues, y \in TagValues}

WithTags(reqs, lists) ==
    {[r EXCEPT !.fields = @ \cup {"tags"}, !.tags = l] : r \in reqs, l \in lists}

TagCreateReqs == {NoFields} \cup WithTags({NoFields}, TagLists)

TagUpdateReqs ==
    {NoFields, [NoFields EXCEPT !.fields = {"priority"}, !.priority = HIGH]}
    \cup WithTags({NoFields}, TagLists)

NextTags ==
    \/ Create(TagCreateReqs, MaxTagTasks)
    \/ Update(TagUpdateReqs, MaxTagTasks)
    \/ Get(MaxTagTasks)
    \/ Delete(MaxTagTasks)

SpecTags == Init /\ [][NextTags]_vars

\* SpecRoutes: requests as a method and a path, answered by the endpoint
\* the router picks
IdPaths(maxid) == {<<str(i)>> : i \in IdsUpTo(maxid)}

GetPaths(maxid) == {<<>>, <<SegStatistics>>, <<SegCount>>} \cup IdPaths(maxid)

PostPaths(maxid) ==
    {<<>>, <<SegBulkUpdate>>}
    \cup {<<str(i), SegStatusTransition>> : i \in IdsUpTo(maxid)}

RouteBodies == WithStatus({IN_PROGRESS, COMPLETED})

HttpGet(maxid) ==
    \E path \in GetPaths(maxid) :
       Step(HttpRequest(tasks, task_dependencies, "GET", path,
                        NoFields, <<>>, PENDING), maxid)

HttpPost(maxid) ==
    \E path \in PostPaths(maxid), req \in {NoFields} \cup RouteBodies,
       task_ids \in IdLists(IdsUpTo(maxid)) \ {<<>>} :
       Step(HttpRequest(tasks, task_dependencies, "POST", path,
                        req, task_ids, IN_PROGRESS), maxid)

HttpPut(maxid) ==
    \E path \in IdPaths(maxid), req \in RouteBodies :
       Step(HttpRequest(tasks, task_dependencies, "PUT", path,
                        req, <<>>, PENDING), maxid)

HttpDelete(maxid) ==
    \E path \in IdPaths(maxid) \cup {<<SegCount>>} :
       Step(HttpRequest(tasks, task_dependencies, "DELETE", path,
                        NoFields, <<>>, PENDING), maxid)

NextRoutes ==
    \/ HttpGet(MaxRouteTasks)
    \/ HttpPost(MaxRouteTasks)
    \/ HttpPut(MaxRouteTasks)
    \/ HttpDelete(MaxRouteTasks)

SpecRoutes == Init /\ [][NextRoutes]_vars

\* Requests in flight.  A request arrives at a free session and runs up to
\* its commit (or is answered at once); the other sessions forget what they
\* recorded about the request the session held before
Free(p) == sessions[p].pc = "done"

Rank(q, p) ==
    IF sessions[q].seq = 0 THEN 0
    ELSE Cardinality({r \in Sessions \ {p} :
                        0 < sessions[r].seq /\ sessions[r].seq <= sessions[q].seq})

Arrive(p, s) ==
    /\ Free(p)
    /\ sessions' =
          [q \in Sessions |->
             IF q = p
             THEN IF s.pc = "done" THEN Idle
                  ELSE Track(s, 0,
                          {r \in Sessions \ {p} :
                             /\ ~Free(r)
                             /\ Range(sessions[r].ids) \cap Range(s.ids) # {}})
             ELSE [sessions[q] EXCEPT !.overlap = @ \ {p},
                                      !.seq = Rank(q, p)]]
    /\ resp' = IF s.pc = "done" THEN s.resp ELSE resp
    /\ UNCHANGED <<tasks, task_dependencies, now, page>>

\* db.commit() of the request of session p: the store and the response
\* become one of the outcomes
Commit(p, outcomes) ==
    \E o \in outcomes :
       /\ tasks' = o.tasks
       /\ task_dependencies' = o.task_dependencies
       /\ resp' = o.resp
       /\ now' = now
       /\ page' = page
       /\ sessions' =
             [sessions EXCEPT
                ![p] = [@ EXCEPT
                          !.pc = "done",
                          !.resp = o.resp,
                          !.seq = 1 + Cardinality({r \in Sessions \ {p} :
                                                     sessions[r].seq > 0})]]

UpdateRead(p, reqs, maxid) ==
    \E task_id \in IdsUpTo(maxid), req \in reqs :
       \E s \in update_task_read(tasks, task_id, req) : Arrive(p, s)

UpdateCommit(p) ==
    /\ sessions[p].op = "update"
    /\ sessions[p].pc = "commit"
    /\ Commit(p, update_task_commit(tasks, task_dependencies, sessions[p]))

BulkRead(p, reqs, maxid) ==
    \E task_ids \in IdLists(IdsUpTo(maxid)) \ {<<>>}, req \in reqs :
       \E s \in bulk_update_tasks_read(tasks, task_ids, req) : Arrive(p, s)

BulkCommit(p) ==
    /\ sessions[p].op = "bulk"
    /\ sessions[p].pc = "commit"
    /\ Commit(p, bulk_update_tasks_commit(tasks, task_dependencies, sessions[p]))

\* a session that inserted rows holds the write lock of the database until
\* it commits: the statements of the other sessions that write wait
NoWriter(p) ==
    \A q \in Sessions \ {p} :
       ~(sessions[q].op = "create" /\ sessions[q].pc = "commit")

CreateCheck(p, reqs) ==
    \E req \in reqs : \E s \in create_task_check(tasks, req) : Arrive(p, s)

CreateFlush(p, maxid) ==
    /\ sessions[p].op = "create"
    /\ sessions[p].pc = "flush"
    /\ NoWriter(p)
    /\ NextId(tasks) <= maxid
    /\ LET s == create_task_flush(tasks, task_dependencies, sessions[p])
       IN  /\ sessions' =
                 [sessions EXCEPT
                    ![p] = IF s.pc = "done" THEN Idle
                           ELSE Track(s, @.seq, @.overlap)]
           /\ resp' = IF s.pc = "done" THEN s.resp ELSE resp
    /\ UNCHANGED <<tasks, task_dependencies, now, page>>

CreateCommit(p) ==
    /\ sessions[p].op = "create"
    /\ sessions[p].pc = "commit"
    /\ Commit(p, create_task_commit(tasks, task_dependencies, sessions[p]))

DeleteCheck(p, maxid) ==
    \E task_id \in IdsUpTo(maxid) :
       Arrive(p, delete_task_check(tasks, task_dependencies, task_id))

DeleteCommit(p) ==
    /\ sessions[p].op = "delete"
    /\ sessions[p].pc = "commit"
    /\ NoWriter(p)
    /\ Commit(p, delete_task_commit(tasks, task_dependencies, sessions[p]))

\* SpecRace: tasks created pending, and update_task requests with a status
\* that run at the same time
RaceCreateReqs == {NoFields}

RaceReqs == WithStatus(TaskStatus)

NextRace ==
    \/ Create(RaceCreateReqs, MaxRaceTasks)
    \/ \E p \in Sessions : UpdateRead(p, RaceReqs, MaxRaceTasks)
    \/ \E p \in Sessions : UpdateCommit(p)

SpecRace == Init /\ [][NextRace]_vars

\* SpecRaceBulk: tasks created pending, and update_task and
\* bulk_update_tasks requests that run at the same time, with the statuses
\* in-progress, completed and on-hold
RaceBulkReqs == WithStatus({IN_PROGRESS, COMPLETED, ON_HOLD})

NextRaceBulk ==
    \/ Create(RaceCreateReqs, MaxRaceBulkTasks)
    \/ \E p \in Sessions : UpdateRead(p, RaceBulkReqs, MaxRaceBulkTasks)
    \/ \E p \in Sessions : UpdateCommit(p)
    \/ \E p \in Sessions : BulkRead(p, RaceBulkReqs, MaxRaceBulkTasks)
    \/ \E p \in Sessions : BulkCommit(p)

SpecRaceBulk == Init /\ [][NextRaceBulk]_vars

\* SpecRaceDeps: create_task requests without fields or depending on one
\* task, and delete_task requests, that run at the same time
RaceDepCreateReqs ==
    {NoFields} \cup WithDeps({NoFields}, {<<i>> : i \in IdsUpTo(MaxRaceDepId)})

NextRaceDeps ==
    \/ \E p \in Sessions : CreateCheck(p, RaceDepCreateReqs)
    \/ \E p \in Sessions : CreateFlush(p, MaxRaceDepId)
    \/ \E p \in Sessions : CreateCommit(p)
    \/ \E p \in Sessions : DeleteCheck(p, MaxRaceDepId)
    \/ \E p \in Sessions : DeleteCommit(p)

SpecRaceDeps == Init /\ [][NextRaceDeps]_vars

\* SpecGraph: the dependency graph under requests that run one after the
\* other: tasks created pending with up to two dependencies, moved to
\* in-progress, and deleted
GraphCreateReqs == WithDeps({NoFields}, IdLists(IdsUpTo(MaxGraphId)))

GraphUpdateReqs == WithStatus({IN_PROGRESS})

NextGraph ==
    \/ Create(GraphCreateReqs, MaxGraphId)
    \/ Update(GraphUpdateReqs, MaxGraphId)
    \/ Delete(MaxGraphId)

SpecGraph == Init /\ [][NextGraph]_vars

\* SpecPage: calls of the pagination helper with small arguments, among
\* them a negative skip, a limit below 1 and a limit above max_limit
InitPage ==
    /\ tasks = [i \in {} |-> NoFields]
    /\ task_dependencies = {}
    /\ resp = Response("none", 0, 0, "", 0, NoBody)
    /\ now = 0
    /\ sessions = [p \in Sessions |-> Idle]
    /\ page \in {Page("args", skip, limit, max_limit, total, NoParams, NoInfo) :
                    skip \in (0 - 1)..MaxSkip, limit \in 0..(MaxLimit + 1),
                    max_limit \in 1..MaxLimit, total \in 0..MaxTotal}

Construct ==
    /\ page.pc = "args"
    /\ page' = [page EXCEPT
                  !.pc = "params",
                  !.params = PaginationParams(page.skip, page.limit,
                                              page.max_limit)]
    /\ UNCHANGED <<tasks, task_dependencies, resp, now, sessions>>

GetPaginationInfo ==
    /\ page.pc = "params"
    /\ page' = [page EXCEPT
                  !.pc = "info",
                  !.info = get_pagination_info(page.params, page.total)]
    /\ UNCHANGED <<tasks, task_dependencies, resp, now, sessions>>

NextPage ==
    \/ Construct
    \/ GetPaginationInfo

SpecPage == InitPage /\ [][NextPage]_vars

-----
(* Properties *)

\* an outcome that leaves every task and every dependency row as it was
StoreKept(o) ==
    o.tasks = tasks /\ o.task_dependencies = task_dependencies

\* the transition table as the specification states it
TransitionTable ==
    {<<PENDING, IN_PROGRESS>>, <<PENDING, CANCELLED>>, <<PENDING, ON_HOLD>>,
     <<IN_PROGRESS, COMPLETED>>, <<IN_PROGRESS, ON_HOLD>>,
     <<IN_PROGRESS, CANCELLED>>,
     <<ON_HOLD, PENDING>>, <<ON_HOLD, IN_PROGRESS>>, <<ON_HOLD, CANCELLED>>,
     <<COMPLETED, IN_PROGRESS>>,
     <<CANCELLED, PENDING>>}

\* C1: for every stored task and every target status, can_transition_to is
\* true iff (current, target) is a pair of the transition table, so a
\* self-transition is rejected; check_status_transition reports that answer.
C1_CanTransitionIffInTable ==
    /\ \A t \in DOMAIN tasks, target \in TaskStatus :
          can_transition_to(tasks[t], target)
             <=> <<tasks[t].status, target>> \in TransitionTable
    /\ \A t \in DOMAIN tasks : ~can_transition_to(tasks[t], tasks[t].status)
    /\ (resp.op = "check" /\ resp.code = 200) =>
          /\ resp.body[1].current_status = tasks[resp.id].status
          /\ resp.body[1].is_allowed
                <=> <<resp.body[1].current_status, resp.body[1].new_status>>
                       \in TransitionTable

\* C1 witness: a check of the self-transition of a completed task was answered
\* "not allowed", and the store holds a cancelled task as well
C1_Witness ==
    /\ resp.op = "check" /\ resp.code = 200
    /\ resp.body[1].current_status = COMPLETED
    /\ resp.body[1].new_status = COMPLETED
    /\ ~resp.body[1].is_allowed
    /\ \E t \in DOMAIN tasks : tasks[t].status = CANCELLED

\* C2: update_task on an existing task with a supplied status the task
\* cannot move to answers 400 InvalidTransition and changes nothing: not the
\* status, completed_at, tags, priority, nor any other task or row.
C2_RejectedUpdateChangesNothing ==
    \A task_id \in DOMAIN tasks, req \in FieldUpdateReqs :
       ("status" \in req.fields /\ ~can_transition_to(tasks[task_id], req.status))
       => \A o \in update_task(tasks, task_dependencies, task_id, req) :
             /\ o.resp.code = 400
             /\ o.resp.kind = "InvalidTransition"
             /\ o.tasks[task_id] = tasks[task_id]
             /\ StoreKept(o)

\* C2 witness: an update was rejected on a completed task that holds tags, a
\* raised priority and a completion time
C2_Witness ==
    /\ resp.op = "update" /\ resp.code = 400 /\ resp.kind = "InvalidTransition"
    /\ resp.id \in DOMAIN tasks
    /\ tasks[resp.id].tags # NullStr
    /\ tasks[resp.id].priority = HIGH
    /\ tasks[resp.id].status = COMPLETED
    /\ tasks[resp.id].completed_at # NULL

\* C3: every stored task has a completion time iff its status is completed.
C3_CompletedAtIffCompleted ==
    \A t \in DOMAIN tasks :
       (tasks[t].completed_at # NULL) <=> (tasks[t].status = COMPLETED)

\* C4: a successful update_task that supplies the status completed leaves
\* the task with a completion time; one that supplies any other status (the
\* reopening completed -> in-progress among them) leaves it without one.
C4_UpdateSetsOrClearsCompletedAt ==
    \A task_id \in DOMAIN tasks, req \in UpdateReqs :
       \A o \in update_task(tasks, task_dependencies, task_id, req) :
          o.resp.code = 200 =>
             /\ o.tasks[task_id].status = req.status
             /\ req.status = COMPLETED => o.tasks[task_id].completed_at # NULL
             /\ req.status # COMPLETED => o.tasks[task_id].completed_at = NULL
             /\ o.resp.body[1].completed_at = o.tasks[task_id].completed_at

\* C4 witness: an update left a task in progress without a completion time
\* while another task, completed by a request, holds one
C4_Witness ==
    /\ resp.op = "update" /\ resp.code = 200
    /\ tasks[resp.id].status = IN_PROGRESS
    /\ tasks[resp.id].completed_at = NULL
    /\ \E t \in DOMAIN tasks :
          tasks[t].status = COMPLETED /\ tasks[t].completed_at = utcnow

DirectDeps(t) == {c \in IdsUpTo(MaxId) : <<t, c>> \in task_dependencies}

\* C6: for every stored task, is_ready_to_start is true iff every direct
\* dependency is completed, and get_blocking_dependencies is the set of the
\* direct dependencies that are not completed; get_task reports that value.
C6_ReadyIffDirectDepsCompleted ==
    /\ \A t \in DOMAIN tasks :
          /\ is_ready_to_start(tasks, task_dependencies, t)
                <=> \A c \in DirectDeps(t) :
                       c \in DOMAIN tasks /\ tasks[c].status = COMPLETED
          /\ get_blocking_dependencies(tasks, task_dependencies, t)
                = {c \in DirectDeps(t) :
                     c \in DOMAIN tasks /\ tasks[c].status # COMPLETED}
          /\ \A o \in get_task(tasks, task_dependencies, t) :
                o.resp.body[1].is_ready_to_start
                   <=> \A c \in DirectDeps(t) :
                          c \in DOMAIN tasks /\ tasks[c].status = COMPLETED

\* C6 witness: a task is reported ready although the dependency of its only,
\* completed, dependency is not completed
C6_Witness ==
    /\ resp.op = "get" /\ resp.code = 200
    /\ resp.body[1].is_ready_to_start
    /\ \E b \in DOMAIN tasks, c \in DOMAIN tasks :
          /\ DirectDeps(resp.id) = {b}
          /\ tasks[b].status = COMPLETED
          /\ DirectDeps(b) = {c}
          /\ tasks[c].status # COMPLETED

\* the tasks other than t that list t as a dependency
Dependents(t) ==
    {p \in DOMAIN tasks \ {t} : <<p, t>> \in task_dependencies}

\* C7: delete_task on an existing task that n >= 1 other tasks list as a
\* dependency answers 400 HasDependents with the count n and changes nothing.
C7_DeleteWithDependentsFails ==
    \A t \in DOMAIN tasks :
       Cardinality(Dependents(t)) >= 1
       => \A o \in delete_task(tasks, task_dependencies, t) :
             /\ o.resp.code = 400
             /\ o.resp.kind = "HasDependents"
             /\ o.resp.n = Cardinality(Dependents(t))
             /\ StoreKept(o)

\* C7 witness: a delete was refused with a count of two dependents
C7_Witness ==
    /\ resp.op = "delete" /\ resp.code = 400 /\ resp.kind = "HasDependents"
    /\ resp.n = 2
    /\ Cardinality(Dependents(resp.id)) = 2

\* C8: every row of task_dependencies joins two stored tasks, and no
\* delete_task removes a task that another task lists as a dependency.
C8_ReferentialIntegrity ==
    /\ \A e \in task_dependencies :
          e[1] \in DOMAIN tasks /\ e[2] \in DOMAIN tasks
    /\ \A t \in DOMAIN tasks :
          Dependents(t) # {}
          => \A o \in delete_task(tasks, task_dependencies, t) :
                t \in DOMAIN o.tasks

\* C8 witness: a task that had dependencies was deleted, its id is free, and
\* rows between the remaining tasks are left
C8_Witness ==
    /\ resp.op = "delete" /\ resp.code = 204
    /\ resp.id \notin DOMAIN tasks
    /\ resp.id < NextId(tasks)
    /\ task_dependencies # {}

\* C9: create_task with a dependency id that is no stored task answers 400
\* DependencyNotFound and adds no task and no row; a successful create_task
\* adds one task and exactly the rows from it to each listed dependency.
C9_CreateChecksDependencies ==
    \A req \in DepCreateReqs :
       \A o \in create_task(tasks, task_dependencies, req) :
          /\ (\E d \in Range(req.dependency_ids) : d \notin DOMAIN tasks)
             => (/\ o.resp.code = 400
                 /\ o.resp.kind = "DependencyNotFound"
                 /\ StoreKept(o))
          /\ o.resp.code = 201
             => (/\ o.resp.id \notin DOMAIN tasks
                 /\ DOMAIN o.tasks = DOMAIN tasks \cup {o.resp.id}
                 /\ \A t \in DOMAIN tasks : o.tasks[t] = tasks[t]
                 /\ o.task_dependencies
                       = task_dependencies
                         \cup {<<o.resp.id, d>> : d \in Range(req.dependency_ids)}
                 /\ {e \in o.task_dependencies : e[1] = o.resp.id}
                       = {<<o.resp.id, d>> : d \in Range(req.dependency_ids)}
                 /\ o.resp.body[1].dependencies = Range(req.dependency_ids))

\* C9 witness: a create naming a missing dependency was refused while the
\* store holds a task created with two dependencies
C9_Witness ==
    /\ resp.op = "create" /\ resp.code = 400
    /\ resp.kind = "DependencyNotFound"
    /\ \E t \in DOMAIN tasks : Cardinality(DirectDeps(t)) = 2

StatusUpdate(s) == [NoFields EXCEPT !.fields = {"status"}, !.status = s]

\* C10: while T2's only dependency T1 is pending or in progress, T2 is not
\* ready, also after update_task moves T1 pending -> in-progress; once
\* update_task moves T1 in-progress -> completed, T2 is ready and get_task
\* reports it so, and T2 itself is as it was.
C10_ReadinessFollowsDependency ==
    \A t1 \in DOMAIN tasks, t2 \in DOMAIN tasks :
       (t1 # t2 /\ DirectDeps(t2) = {t1}) =>
          /\ tasks[t1].status \in {PENDING, IN_PROGRESS}
             => ~is_ready_to_start(tasks, task_dependencies, t2)
          /\ tasks[t1].status = PENDING
             => \A o \in update_task(tasks, task_dependencies, t1,
                                     StatusUpdate(IN_PROGRESS)) :
                   /\ o.resp.code = 200
                   /\ ~is_ready_to_start(o.tasks, o.task_dependencies, t2)
          /\ tasks[t1].status = IN_PROGRESS
             => \A o \in update_task(tasks, task_dependencies, t1,
                                     StatusUpdate(COMPLETED)) :
                   /\ o.resp.code = 200
                   /\ is_ready_to_start(o.tasks, o.task_dependencies, t2)
                   /\ o.tasks[t2] = tasks[t2]
                   /\ o.task_dependencies = task_dependencies
                   /\ \A g \in get_task(o.tasks, o.task_dependencies, t2) :
                         g.resp.body[1].is_ready_to_start

\* C10 witness: the update that completed T1 was the last request, and the
\* pending task T2 that depends on T1 alone is ready
C10_Witness ==
    /\ resp.op = "update" /\ resp.code = 200
    /\ resp.id \in DOMAIN tasks
    /\ tasks[resp.id].status = COMPLETED
    /\ tasks[resp.id].completed_at = utcnow
    /\ \E t2 \in DOMAIN tasks :
          /\ DirectDeps(t2) = {resp.id}
          /\ tasks[t2].status = PENDING
          /\ is_ready_to_start(tasks, task_dependencies, t2)

\* C11: delete_task on a stored task that no other task lists as a
\* dependency answers 204, removes the task (a get of its id then answers
\* 404) and every row from it to its dependencies, and leaves the other
\* tasks and the rows between them; so when T3 is the only task depending
\* on T1, delete T1 answers 400 HasDependents with count 1, and once
\* delete T3 has succeeded delete T1 succeeds.
C11_DeleteWithoutDependents ==
    /\ \A t \in DOMAIN tasks :
          Dependents(t) = {}
          => \A o \in delete_task(tasks, task_dependencies, t) :
                /\ o.resp.code = 204
                /\ DOMAIN o.tasks = DOMAIN tasks \ {t}
                /\ \A u \in DOMAIN o.tasks : o.tasks[u] = tasks[u]
                /\ \A g \in get_task(o.tasks, o.task_dependencies, t) :
                      g.resp.code = 404
                /\ o.task_dependencies
                      = {e \in task_dependencies : e[1] # t /\ e[2] # t}
                /\ \A e \in o.task_dependencies : e[1] # t
    /\ \A t1 \in DOMAIN tasks, t3 \in DOMAIN tasks :
          (t1 # t3 /\ Dependents(t1) = {t3})
          => /\ \A o \in delete_task(tasks, task_dependencies, t1) :
                   /\ o.resp.code = 400
                   /\ o.resp.kind = "HasDependents"
                   /\ o.resp.n = 1
                   /\ StoreKept(o)
             /\ \A o3 \in delete_task(tasks, task_dependencies, t3) :
                   o3.resp.code = 204
                   => \A o1 \in delete_task(o3.tasks, o3.task_dependencies, t1) :
                         /\ o1.resp.code = 204
                         /\ t1 \notin DOMAIN o1.tasks

\* C11 witness: the delete of T1 was refused with count 1 while its only
\* dependent T3, which nothing depends on, lists T1 and a second dependency
C11_Witness ==
    /\ resp.op = "delete" /\ resp.code = 400 /\ resp.n = 1
    /\ \E t3 \in DOMAIN tasks :
          /\ Dependents(resp.id) = {t3}
          /\ Dependents(t3) = {}
          /\ Cardinality(DirectDeps(t3)) = 2

\* C12: a successful bulk_update_tasks with the target status t leaves every
\* selected task with the status t (with a completion time when t is
\* completed), answers one result per selected task, and changes no task
\* outside the selection and no row of task_dependencies.
C12_BulkSuccessEffect ==
    \A task_ids \in IdLists(IdsUpTo(MaxBulkId)) \ {<<>>},
       req \in WithStatus(TaskStatus) :
       \A o \in bulk_update_tasks(tasks, task_dependencies, task_ids, req) :
          o.resp.code = 200 =>
             /\ DOMAIN o.tasks = DOMAIN tasks
             /\ \A t \in Range(task_ids) :
                   /\ o.tasks[t].status = req.status
                   /\ req.status = COMPLETED => o.tasks[t].completed_at # NULL
             /\ Len(o.resp.body) = Len(task_ids)
             /\ {o.resp.body[k].id : k \in DOMAIN o.resp.body} = Range(task_ids)
             /\ \A k \in DOMAIN o.resp.body : o.resp.body[k].status = req.status
             /\ \A u \in DOMAIN tasks \ Range(task_ids) : o.tasks[u] = tasks[u]
             /\ o.task_dependencies = task_dependencies

\* C12 witness: a bulk update completed two tasks and answered two results
\* while a third task, which depends on one of them, is as it was
C12_Witness ==
    /\ resp.op = "bulk" /\ resp.code = 200
    /\ Len(resp.body) = 2
    /\ \A k \in DOMAIN resp.body :
          /\ tasks[resp.body[k].id].status = COMPLETED
          /\ tasks[resp.body[k].id].completed_at = utcnow
    /\ \E u \in DOMAIN tasks :
          /\ u \notin {resp.body[k].id : k \in DOMAIN resp.body}
          /\ tasks[u].status = PENDING
          /\ DirectDeps(u) # {}

\* C13: bulk_update_tasks whose task_ids hold an id that is no stored task
\* answers 404 and changes no task and no row, also not the selected tasks
\* that are stored; this holds as well when a selected stored task cannot
\* move to the supplied status (the answer is 404, not 400).
C13_BulkMissingIdNotFound ==
    \A task_ids \in IdLists(IdsUpTo(MaxTasks)) \ {<<>>}, req \in UpdateReqs :
       (\E i \in Range(task_ids) : i \notin DOMAIN tasks)
       => \A o \in bulk_update_tasks(tasks, task_dependencies, task_ids, req) :
             /\ o.resp.code = 404
             /\ o.resp.kind = "NotFound"
             /\ StoreKept(o)

\* C13 witness: a bulk update was answered 404 while the store holds a
\* completed task and one of the ids a request can name is free
C13_Witness ==
    /\ resp.op = "bulk" /\ resp.code = 404
    /\ \E t \in DOMAIN tasks :
          tasks[t].status = COMPLETED /\ tasks[t].completed_at # NULL
    /\ \E i \in IdsUpTo(MaxTasks) : i \notin DOMAIN tasks

\* C14: a successful update_task gives each supplied field the supplied
\* value and changes, beside them, only completed_at (when a status is
\* supplied) and updated_at: the fields not supplied, the id, created_at,
\* the rows of task_dependencies and every other task are as they were.
C14_UpdateChangesOnlySupplied ==
    \A task_id \in DOMAIN tasks, req \in FieldUpdateReqs :
       \A o \in update_task(tasks, task_dependencies, task_id, req) :
          o.resp.code = 200 =>
             LET old == tasks[task_id]
                 new == o.tasks[task_id]
             IN  /\ DOMAIN o.tasks = DOMAIN tasks
                 /\ o.resp.body[1].id = task_id
                 /\ new.created_at = old.created_at
                 /\ new.assigned_to = old.assigned_to
                 /\ IF "status" \in req.fields
                    THEN new.status = req.status
                    ELSE /\ new.status = old.status
                         /\ new.completed_at = old.completed_at
                 /\ IF "priority" \in req.fields
                    THEN new.priority = req.priority
                    ELSE new.priority = old.priority
                 /\ IF "tags" \in req.fields
                    THEN tags_list_get(new.tags) = req.tags
                    ELSE new.tags = old.tags
                 /\ \A u \in DOMAIN tasks \ {task_id} : o.tasks[u] = tasks[u]
                 /\ o.task_dependencies = task_dependencies

\* C14 witness: an update that supplied only a priority was the last
\* request; its task, created before, is still pending and depends on
\* another task, which holds its first updated_at
C14_Witness ==
    /\ resp.op = "update" /\ resp.code = 200
    /\ tasks[resp.id].priority = HIGH
    /\ tasks[resp.id].status = PENDING
    /\ tasks[resp.id].created_at < tasks[resp.id].updated_at
    /\ \E u \in DOMAIN tasks :
          /\ <<resp.id, u>> \in task_dependencies
          /\ tasks[u].status = IN_PROGRESS
          /\ tasks[u].updated_at < tasks[resp.id].updated_at

\* the progress of each status as the specification states it
ProgressTable ==
    {<<PENDING, 0>>, <<ON_HOLD, 25>>, <<IN_PROGRESS, 50>>, <<COMPLETED, 100>>,
     <<CANCELLED, 0>>}

\* C15: get_progress_percentage of every stored task is the table's value
\* for its status (0 pending, 25 on-hold, 50 in-progress, 100 completed,
\* 0 cancelled), whatever its priority, assignee, tags and completion
\* time; every task a response carries is reported with that value.
C15_ProgressFunctionOfStatus ==
    /\ \A t \in DOMAIN tasks, p \in TaskPriority, c \in {NULL, utcnow},
          a \in {NULL, "ann"}, g \in {NullStr, TagA} :
          <<tasks[t].status,
            get_progress_percentage(
               [tasks[t] EXCEPT !.priority = p, !.completed_at = c,
                                !.assigned_to = a, !.tags = g])>>
             \in ProgressTable
    /\ \A t \in DOMAIN tasks :
          \A o \in get_task(tasks, task_dependencies, t) :
             <<tasks[t].status, o.resp.body[1].progress_percentage>>
                \in ProgressTable
    /\ resp.code \in {200, 201} /\ resp.op \in {"create", "update", "bulk", "get"}
       => \A k \in DOMAIN resp.body :
             <<tasks[resp.body[k].id].status, resp.body[k].progress_percentage>>
                \in ProgressTable

\* C15 witness: an update put a task on hold and reported its progress as
\* 25 while the store holds a cancelled task as well
C15_Witness ==
    /\ resp.op = "update" /\ resp.code = 200
    /\ tasks[resp.id].status = ON_HOLD
    /\ resp.body[1].progress_percentage = 25
    /\ \E t \in DOMAIN tasks : tasks[t].status = CANCELLED

\* C16: get_task, update_task, delete_task and check_status_transition on an
\* id that is no stored task each answer 404 and leave every task and row
\* as they were; update_task does so whatever status the request supplies.
C16_MissingIdNotFound ==
    \A task_id \in IdsUpTo(MaxTasks) \ DOMAIN tasks :
       /\ \A o \in get_task(tasks, task_dependencies, task_id) :
             o.resp.code = 404 /\ StoreKept(o)
       /\ \A o \in delete_task(tasks, task_dependencies, task_id) :
             o.resp.code = 404 /\ StoreKept(o)
       /\ \A s \in TaskStatus :
             \A o \in check_status_transition(tasks, task_dependencies,
                                              task_id, s) :
                o.resp.code = 404 /\ StoreKept(o)
       /\ \A req \in {NoFields} \cup UpdateReqs :
             \A o \in update_task(tasks, task_dependencies, task_id, req) :
                o.resp.code = 404 /\ StoreKept(o)

\* C16 witness: an update was answered 404 for the id of a deleted task
\* while the store holds a task that could have moved to in-progress
C16_Witness ==
    /\ resp.op = "update" /\ resp.code = 404
    /\ resp.id \notin DOMAIN tasks
    /\ resp.id < NextId(tasks)
    /\ \E t \in DOMAIN tasks : can_transition_to(tasks[t], IN_PROGRESS)

\* C17: check_status_transition on a stored task answers 200 with the
\* task's current status, is_allowed true iff the table allows the move to
\* new_status, and a reason that is null iff is_allowed; whatever the
\* answer, the task's status and completed_at and every other task and row
\* are as they were.
C17_CheckTransitionIsQuery ==
    \A task_id \in DOMAIN tasks, s \in TaskStatus :
       \A o \in check_status_transition(tasks, task_dependencies, task_id, s) :
          /\ o.resp.code = 200
          /\ o.resp.body[1].current_status = tasks[task_id].status
          /\ o.resp.body[1].new_status = s
          /\ o.resp.body[1].is_allowed
                <=> <<tasks[task_id].status, s>> \in TransitionTable
          /\ o.resp.body[1].reason_is_null <=> o.resp.body[1].is_allowed
          /\ o.tasks[task_id].status = tasks[task_id].status
          /\ o.tasks[task_id].completed_at = tasks[task_id].completed_at
          /\ StoreKept(o)

\* C17 witness: the reopening of a completed task was checked and answered
\* "allowed", and the task is still completed with its completion time
C17_Witness ==
    /\ resp.op = "check" /\ resp.code = 200
    /\ resp.body[1].is_allowed
    /\ resp.body[1].reason_is_null
    /\ resp.body[1].new_status = IN_PROGRESS
    /\ tasks[resp.id].status = COMPLETED
    /\ tasks[resp.id].completed_at = utcnow

\* the trimmed, non-empty tags of a supplied list
TrimmedTags(v) == {strip(v[i]) : i \in {j \in DOMAIN v : strip(v[j]) # <<>>}}

\* a list without a repeated entry
NoDuplicates(l) == Cardinality(Range(l)) = Len(l)

\* C18: the tag list reported for every stored task has no repeated entry
\* and at most 20 entries; create_task and an update_task that supplies
\* tags leave the task reporting, as a set, the trimmed non-empty tags of
\* the request, and an update_task that supplies no tags leaves the
\* reported list as it was.
C18_ReportedTags ==
    /\ \A t \in DOMAIN tasks :
          \A o \in get_task(tasks, task_dependencies, t) :
             /\ NoDuplicates(o.resp.body[1].tags)
             /\ Len(o.resp.body[1].tags) <= MaxTags
    /\ \A req \in TagCreateReqs :
          \A o \in create_task(tasks, task_dependencies, req) :
             o.resp.code = 201
             => Range(o.resp.body[1].tags) = TrimmedTags(TaskCreate(req).tags)
    /\ \A t \in DOMAIN tasks, req \in TagUpdateReqs :
          \A o \in update_task(tasks, task_dependencies, t, req) :
             o.resp.code = 200
             => IF "tags" \in req.fields
                THEN Range(o.resp.body[1].tags) = TrimmedTags(req.tags)
                ELSE o.resp.body[1].tags = tags_list_get(tasks[t].tags)

\* the request supplies a value other than the stored one for some field
SuppliesChange(task, req) ==
    \/ "status" \in req.fields /\ req.status # task.status
    \/ "priority" \in req.fields /\ req.priority # task.priority
    \/ "assigned_to" \in req.fields /\ req.assigned_to # task.assigned_to

\* what every request keeps of the timestamps of one task
TimestampsKept(old, new) ==
    /\ new.created_at = old.created_at
    /\ new.updated_at >= old.updated_at
    /\ new.updated_at >= new.created_at

\* C19 as stated: every successful update_task and bulk_update_tasks sets
\* updated_at of each task it handles to the time of the request;
\* created_at is set at creation and never changes, updated_at never
\* decreases, and updated_at >= created_at.
C19_UpdatedAtRefreshed ==
    /\ \A t \in DOMAIN tasks :
          tasks[t].created_at <= tasks[t].updated_at
    /\ \A t \in DOMAIN tasks, req \in ClockUpdateReqs :
          \A o \in update_task(tasks, task_dependencies, t, req) :
             o.resp.code = 200
             => /\ o.tasks[t].updated_at = now
                /\ \A u \in DOMAIN tasks : TimestampsKept(tasks[u], o.tasks[u])
    /\ \A task_ids \in IdLists(IdsUpTo(MaxClockTasks)) \ {<<>>},
          req \in ClockUpdateReqs :
          \A o \in bulk_update_tasks(tasks, task_dependencies, task_ids, req) :
             o.resp.code = 200
             => /\ \A t \in Range(task_ids) : o.tasks[t].updated_at = now
                /\ \A u \in DOMAIN tasks : TimestampsKept(tasks[u], o.tasks[u])

\* C19 amended: a successful update_task or bulk_update_tasks sets
\* updated_at of a task to the time of the request when it supplies a
\* value other than the stored one for a field of the task, and leaves it
\* as it was otherwise; a created task starts with updated_at = created_at
\* = the time of the request; no request changes the created_at of a task
\* or lowers its updated_at, and created_at <= updated_at <= the clock.
C19_UpdatedAtRefreshedOnChange ==
    /\ \A t \in DOMAIN tasks :
          /\ tasks[t].created_at <= tasks[t].updated_at
          /\ tasks[t].updated_at <= now
    /\ \A req \in ClockCreateReqs :
          \A o \in create_task(tasks, task_dependencies, req) :
             /\ o.resp.code = 201
                => /\ o.tasks[o.resp.id].created_at = now
                   /\ o.tasks[o.resp.id].updated_at = now
             /\ \A u \in DOMAIN tasks : TimestampsKept(tasks[u], o.tasks[u])
    /\ \A t \in DOMAIN tasks, req \in ClockUpdateReqs :
          \A o \in update_task(tasks, task_dependencies, t, req) :
             o.resp.code = 200
             => /\ o.tasks[t].updated_at
                      = IF SuppliesChange(tasks[t], req)
                        THEN now ELSE tasks[t].updated_at
                /\ o.resp.body[1].updated_at = o.tasks[t].updated_at
                /\ \A u \in DOMAIN tasks : TimestampsKept(tasks[u], o.tasks[u])
    /\ \A task_ids \in IdLists(IdsUpTo(MaxClockTasks)) \ {<<>>},
          req \in ClockUpdateReqs :
          \A o \in bulk_update_tasks(tasks, task_dependencies, task_ids, req) :
             o.resp.code = 200
             => /\ \A t \in Range(task_ids) :
                      o.tasks[t].updated_at
                         = IF SuppliesChange(tasks[t], req)
                           THEN now ELSE tasks[t].updated_at
                /\ \A u \in DOMAIN tasks : TimestampsKept(tasks[u], o.tasks[u])
    /\ \A t \in DOMAIN tasks :
          \A o \in delete_task(tasks, task_dependencies, t) :
             \A u \in DOMAIN o.tasks : TimestampsKept(tasks[u], o.tasks[u])

\* C19 witness: a bulk update moved two tasks to in-progress after the
\* clock advanced: both hold the new updated_at and their first created_at
C19_Witness ==
    /\ resp.op = "bulk" /\ resp.code = 200
    /\ Len(resp.body) = 2
    /\ \A k \in DOMAIN resp.body :
          /\ tasks[resp.body[k].id].status = IN_PROGRESS
          /\ tasks[resp.body[k].id].updated_at = now
          /\ tasks[resp.body[k].id].created_at < now
          /\ resp.body[k].updated_at = now

\* C20: GET /api/v1/tasks/count is answered by get_task_count with 200 and
\* a total equal to the number of stored tasks, which is the length of the
\* unfiltered task list while that number is at most the default limit.
C20_CountRouteAnswers ==
    \A o \in HttpRequest(tasks, task_dependencies, "GET", <<SegCount>>,
                         NoFields, <<>>, PENDING) :
       /\ o.resp.op = "count"
       /\ o.resp.code = 200
       /\ o.resp.n = Cardinality(DOMAIN tasks)
       /\ Cardinality(DOMAIN tasks) <= DefaultLimit
          => \A l \in HttpRequest(tasks, task_dependencies, "GET", <<>>,
                                  NoFields, <<>>, PENDING) :
                Len(l.resp.body) = o.resp.n

\* create_task requests that name neither a status nor a priority: nothing
\* else, an assignee and a tag, or a list of dependencies
DefaultCreateReqs ==
    {NoFields,
     [NoFields EXCEPT !.fields = {"assigned_to", "tags"},
                      !.assigned_to = "ann", !.tags = <<TagA>>]}
    \cup WithDeps({NoFields}, IdLists(IdsUpTo(MaxEditTasks)))

\* C21: a task created without a status and a priority is stored pending,
\* with priority medium, without a completion time and reported with
\* progress 0; the rows from it in task_dependencies are exactly the listed
\* dependencies (none when dependency_ids is omitted), and no other row or
\* task changes.
C21_CreateDefaults ==
    \A req \in DefaultCreateReqs :
       \A o \in create_task(tasks, task_dependencies, req) :
          o.resp.code = 201
          => LET t == o.resp.id
             IN  /\ t \notin DOMAIN tasks
                 /\ o.tasks[t].status = PENDING
                 /\ o.tasks[t].priority = MEDIUM
                 /\ o.tasks[t].completed_at = NULL
                 /\ o.resp.body[1].status = PENDING
                 /\ o.resp.body[1].priority = MEDIUM
                 /\ o.resp.body[1].completed_at = NULL
                 /\ o.resp.body[1].progress_percentage = 0
                 /\ {e \in o.task_dependencies : e[1] = t}
                       = IF "dependency_ids" \in req.fields
                         THEN {<<t, d>> : d \in Range(req.dependency_ids)}
                         ELSE {}
                 /\ {e \in o.task_dependencies : e[1] # t} = task_dependencies
                 /\ o.resp.body[1].dependencies
                       = {e[2] : e \in {x \in o.task_dependencies : x[1] = t}}

\* C21 witness: a task was created with the defaults and one dependency
\* while the task it depends on is in progress with a raised priority
C21_Witness ==
    /\ resp.op = "create" /\ resp.code = 201
    /\ resp.id \in DOMAIN tasks
    /\ tasks[resp.id].status = PENDING
    /\ tasks[resp.id].priority = MEDIUM
    /\ {e \in task_dependencies : e[1] = resp.id} = {<<resp.id, 1>>}
    /\ tasks[1].status = IN_PROGRESS

\* two update_task requests for the same task of which q read while p had
\* read and not committed: both read before either commits
ReadTogether(p, q) ==
    /\ sessions[p].op = "update" /\ sessions[q].op = "update"
    /\ sessions[p].ids = sessions[q].ids
    /\ p \in sessions[q].overlap

\* C22: when two update_task requests for the same task have both read the
\* task before either commits, neither is refused at its commit (each is
\* answered 200), and once both have committed the stored status is the one
\* supplied by the request that committed last.
C22_LastWriteWins ==
    \A p \in Sessions : \A q \in Sessions \ {p} :
       ReadTogether(p, q)
       => /\ Free(p) => sessions[p].resp.code = 200
          /\ Free(q) => sessions[q].resp.code = 200
          /\ (Free(p) /\ Free(q))
             => tasks[sessions[p].ids[1]].status
                   = IF sessions[p].seq > sessions[q].seq
                     THEN sessions[p].req.status
                     ELSE sessions[q].req.status

\* C22 witness: two requests read a task in progress together; one committed
\* completed, then the other committed on-hold, and the task is on hold
C22_Witness ==
    \E p \in Sessions : \E q \in Sessions \ {p} :
       /\ ReadTogether(p, q)
       /\ Free(p) /\ Free(q)
       /\ sessions[p].loaded[1].status = IN_PROGRESS
       /\ sessions[q].loaded[1].status = IN_PROGRESS
       /\ sessions[p].req.status = COMPLETED
       /\ sessions[q].req.status = ON_HOLD
       /\ sessions[p].seq < sessions[q].seq
       /\ resp = sessions[q].resp /\ resp.code = 200
       /\ tasks[1].status = ON_HOLD

\* C23: referential integrity under interleaving: in every state reached by
\* delete_task and create_task requests that run at the same time, every row
\* of task_dependencies points to a task that exists.
C23_NoEdgeToDeletedTask ==
    \A e \in task_dependencies : e[2] \in DOMAIN tasks

\* C24: under update_task and bulk_update_tasks requests that run at the
\* same time, every step that changes the committed status of a task changes
\* it along a pair of the transition table.
C24_CommittedTransitionsLegal ==
    [][\A t \in DOMAIN tasks \cap DOMAIN tasks' :
          tasks'[t].status # tasks[t].status
          => <<tasks[t].status, tasks'[t].status>> \in TransitionTable]_vars

\* the pairs of tasks joined by a path of rows of task_dependencies
RECURSIVE Paths(_, _)
Paths(edges, n) ==
    IF n = 0 THEN edges
    ELSE LET shorter == Paths(edges, n - 1)
             ends == {e[1] : e \in edges} \cup {e[2] : e \in edges}
         IN  shorter \cup {p \in ends \X ends :
                             \E b \in ends : /\ <<p[1], b>> \in shorter
                                             /\ <<b, p[2]>> \in edges}

\* C25: in every state reached by requests that run one after the other,
\* task_dependencies has no self-loop and no cycle and joins stored tasks
\* only (an id that is free, to be used again, has no row); create_task adds
\* only rows from the new task to tasks that exist, and no other request
\* adds a row.
C25_DependencyGraphAcyclic ==
    /\ \A e \in task_dependencies :
          /\ e[1] # e[2]
          /\ e[1] \in DOMAIN tasks /\ e[2] \in DOMAIN tasks
    /\ \A t \in DOMAIN tasks :
          <<t, t>> \notin Paths(task_dependencies, Cardinality(DOMAIN tasks))
    /\ \A req \in GraphCreateReqs :
          \A o \in create_task(tasks, task_dependencies, req) :
             /\ task_dependencies \subseteq o.task_dependencies
             /\ \A e \in o.task_dependencies \ task_dependencies :
                   /\ e[1] = o.resp.id
                   /\ e[1] \notin DOMAIN tasks
                   /\ e[2] \in DOMAIN tasks
    /\ \A t \in IdsUpTo(MaxGraphId), req \in GraphUpdateReqs :
          /\ \A o \in update_task(tasks, task_dependencies, t, req) :
                o.task_dependencies = task_dependencies
          /\ \A o \in delete_task(tasks, task_dependencies, t) :
                o.task_dependencies \subseteq task_dependencies

\* C25 witness: task 3 was created depending on tasks 1 and 2 while task 2
\* depends on task 1: a graph with a path of two rows
C25_Witness ==
    /\ resp.op = "create" /\ resp.code = 201 /\ resp.id = 3
    /\ task_dependencies = {<<2, 1>>, <<3, 1>>, <<3, 2>>}
    /\ <<3, 1>> \in Paths({<<2, 1>>, <<3, 2>>}, 1)

\* a step that changes the status of a task that stays stored changes it
\* along a pair of the transition table
StatusStepsLegal ==
    \A t \in DOMAIN tasks \cap DOMAIN tasks' :
       tasks'[t].status # tasks[t].status
       => <<tasks[t].status, tasks'[t].status>> \in TransitionTable

\* C26: under requests that run one after the other, a task becomes
\* completed only in a step that finds it in progress (so a completed task
\* was in progress before), and every later status of a task follows from
\* the one before by a pair of the transition table.
C26_CompletedOnlyFromInProgress ==
    [][/\ \A t \in DOMAIN tasks' :
             (/\ tasks'[t].status = COMPLETED
              /\ (t \notin DOMAIN tasks \/ tasks[t].status # COMPLETED))
             => (t \in DOMAIN tasks /\ tasks[t].status = IN_PROGRESS)
       /\ StatusStepsLegal]_vars

\* C26 as amended: a task becomes completed only in the step that creates it
\* with that status or in a step that finds it in progress, and every later
\* status of a task follows from the one before by a pair of the table.
C26_CompletedFromInProgressOrCreated ==
    [][/\ \A t \in DOMAIN tasks' :
             (/\ tasks'[t].status = COMPLETED
              /\ t \in DOMAIN tasks
              /\ tasks[t].status # COMPLETED)
             => tasks[t].status = IN_PROGRESS
       /\ \A t \in DOMAIN tasks' \ DOMAIN tasks :
             resp'.op = "create" /\ resp'.id = t
       /\ StatusStepsLegal]_vars

\* C26 witness: an update completed a task that was in progress, beside a
\* task that was created completed (it has no completion time)
C26_Witness ==
    /\ resp.op = "update" /\ resp.code = 200
    /\ tasks[resp.id].status = COMPLETED
    /\ tasks[resp.id].completed_at = utcnow
    /\ \E t \in DOMAIN tasks \ {resp.id} :
          tasks[t].status = COMPLETED /\ tasks[t].completed_at = NULL

\* what a request did: the kind of its failure (none when it succeeded) and
\* the store it left
Effect(o) ==
    [kind |-> o.resp.kind, tasks |-> o.tasks,
     task_dependencies |-> o.task_dependencies]

\* C27: for every stored task and every body (status, priority, tags),
\* bulk_update_tasks with task_ids = [id] has the outcome of
\* update_task(id, body): both fail with the same kind of error or both
\* leave the same store, completed_at and the tags included.
C27_BulkOfOneIsUpdate ==
    \A task_id \in DOMAIN tasks, req \in FieldUpdateReqs :
       {Effect(o) : o \in bulk_update_tasks(tasks, task_dependencies,
                                             <<task_id>>, req)}
       = {Effect(o) : o \in update_task(tasks, task_dependencies, task_id, req)}

\* C28: bulk_update_tasks answers 404 only if an id of task_ids is no stored
\* task: for every list of ids of stored tasks, also one that repeats an id,
\* the request is not refused as not-found.
C28_BulkNotFoundOnlyIfMissing ==
    \A task_ids \in IdLists(DOMAIN tasks) \ {<<>>}, req \in UpdateReqs :
       \A o \in bulk_update_tasks(tasks, task_dependencies, task_ids, req) :
          o.resp.code # 404

\* C29: create_task answers 400 DependencyNotFound only if an id of
\* dependency_ids is no stored task: for every list of ids of stored tasks,
\* also one that repeats an id, the task is created with one row of
\* task_dependencies per distinct dependency.
C29_CreateRefusesOnlyMissing ==
    \A req \in WithDeps({NoFields}, IdLists(DOMAIN tasks)) :
       \A o \in create_task(tasks, task_dependencies, req) :
          /\ o.resp.code = 201
          /\ o.task_dependencies
                = task_dependencies
                  \cup {<<o.resp.id, d>> : d \in Range(req.dependency_ids)}

\* C30: the constructor yields skip >= 0 and 1 <= limit <= max_limit, and
\* for these get_pagination_info reports has_next iff skip + limit < total,
\* has_previous iff skip > 0 and items_on_page = min(limit, max(0, total -
\* skip)).
C30_PaginationInfo ==
    /\ page.pc \in {"params", "info"}
       => /\ page.params.skip >= 0
          /\ 1 <= page.params.limit /\ page.params.limit <= page.max_limit
    /\ page.pc = "info"
       => /\ page.info.has_next
                <=> page.params.skip + page.params.limit < page.total
          /\ page.info.has_previous <=> page.params.skip > 0
          /\ page.info.items_on_page
                = min(page.params.limit, max(0, page.total - page.params.skip))

====
